---- MODULE Spec2Model ----
(***************************************************************************)
(* A model of uzzz/httpcache: the in-memory LRU store (store/memory), the  *)
(* response recorder (httpresp.go) and the caching middleware              *)
(* (httpcache.go).                                                         *)
(*                                                                         *)
(* Go pointers are modelled as addresses into two arenas: `nodes` holds    *)
(* the accessListNode objects and `heap` the backing arrays of []byte      *)
(* slices.  Address 0 is nil.                                              *)
(***************************************************************************)
EXTENDS Integers, Sequences, FiniteSets, TLC

\* ------------------------------------------------------------- bounds
MaxKeys == 3
MaxCapacity == 3
MaxTime == 3
MaxTTL == 2
MaxDelay == 3
MaxQuery == 3
MaxOps == 4
MaxThreads == 2
MaxBody == 2
\* WithCapacity rejects bytes <= 1: the smallest capacity a store can have.
MinCapacity == 2

Keys == 1..MaxKeys
\* the smallest and the largest capacity tried
Capacities == {MinCapacity, MaxCapacity}
\* Payload lengths reach one past the largest capacity (ErrEntryIsTooBig).
MaxLen == MaxCapacity + 1
\* the lengths tried: none, one byte, and those around the largest capacity
Lens == {0, 1, MaxCapacity - 1, MaxCapacity, MaxLen}
Nil == 0
NodeIds == 1..(MaxKeys + 1)
BufIds == 1..(MaxKeys + 4)
\* time.Time{}: the zero instant; the clock starts after it.
ZeroTime == Nil
StartTime == ZeroTime + 1

ErrNil == "nil"
ErrNoEntry == "not found"
ErrEntryIsTooBig == "entry exceeds capacity"
PanicNoItems == "panic: no more items in the access list"
PanicKeyNotFound == "panic: key from the access list not found"
PanicNilDeref == "panic: nil pointer dereference"
Panics == {PanicNoItems, PanicKeyNotFound, PanicNilDeref}

VARIABLES
    s,        \* the memory.Store: sizeBytes, capacityBytes, data, al
    nodes,    \* arena of accessListNode objects: address -> [key, next, prev]
    heap,     \* arena of byte arrays: address -> sequence of bytes
    now,      \* time.Now()
    caller,   \* the calling program: last call, its result, slices it holds
    recency,  \* history: resident keys, most recently Set / live-read first
    lastSet,  \* history: per resident key, the Set that stored it
    victims,  \* history: keys the last call evicted, in eviction order
    recovered, \* history: an earlier call panicked and the program went on
    kv,       \* the Store behind the middleware: key -> blob
    served,   \* the last request the middleware served and what happened
    mw,       \* what NewMiddleware returned: the middleware, or the error
    probe,    \* two URLs the program derives cache keys for, and the keys
    rr,       \* a recorder around a real writer, and the calls made on it
    th,       \* the store's mutex, and the goroutines calling Get and Set
    rt        \* a cachedResponse, the store it is saved to, and what is read back

storeVars == <<s, nodes, heap, now, caller, recency, lastSet, victims, recovered>>
mwVars == <<kv, served, mw, probe, rr, th, rt>>
vars == <<storeVars, mwVars>>

\* ------------------------------------------------------ memory.go: list
NoNode == [key |-> Nil, next |-> Nil, prev |-> Nil]
\* item{}: the zero item
ZeroItem == [data |-> Nil, expires |-> ZeroTime, alNode |-> Nil]

\* addToHead leaving the old head's prev link unset
addToHeadNoBackLink(al, ns, key, node) ==
    LET n0 == [ns EXCEPT ![node] = [key |-> key, next |-> al.head, prev |-> Nil]]
        al1 == IF al.head = Nil THEN [al EXCEPT !.tail = node] ELSE al
    IN  [al |-> [al1 EXCEPT !.head = node], nodes |-> n0, panic |-> ErrNil]

\* accessList.addToHead; node is the address the allocation returns
addToHead(al, ns, key, node) ==
    LET n0 == [ns EXCEPT ![node] = [key |-> key, next |-> Nil, prev |-> Nil]]
        al1 == IF al.head = Nil THEN [al EXCEPT !.tail = node] ELSE al
        n1 == IF al.head = Nil THEN n0 ELSE [n0 EXCEPT ![al.head].prev = node]
        n2 == [n1 EXCEPT ![node].next = al.head]
    IN  [al |-> [al1 EXCEPT !.head = node], nodes |-> n2, panic |-> ErrNil]

\* accessList.remove; a nil dereference panics where it happens
remove(al, ns, item) ==
    LET first ==
            IF item = al.head
            THEN IF al.head = Nil
                 THEN [al |-> al, nodes |-> ns, panic |-> PanicNilDeref]
                 ELSE [al |-> [al EXCEPT !.head = ns[al.head].next],
                       nodes |-> ns, panic |-> ErrNil]
            ELSE IF item = Nil \/ ns[item].prev = Nil
                 THEN [al |-> al, nodes |-> ns, panic |-> PanicNilDeref]
                 ELSE [al |-> al,
                       nodes |-> [ns EXCEPT ![ns[item].prev].next = ns[item].next],
                       panic |-> ErrNil]
    IN  IF first.panic # ErrNil THEN first
        ELSE IF item = first.al.tail
        THEN IF item = Nil
             THEN [first EXCEPT !.panic = PanicNilDeref]
             ELSE [first EXCEPT !.al.tail = first.nodes[item].prev]
        ELSE IF first.nodes[item].next = Nil
             THEN [first EXCEPT !.panic = PanicNilDeref]
             ELSE [first EXCEPT
                     !.nodes[first.nodes[item].next].prev = first.nodes[item].prev]

\* removeFromTail taking the node at the wrong end, the head
removeFromHead(al, ns) ==
    IF al.tail = Nil
    THEN [al |-> al, nodes |-> ns, key |-> 0, ok |-> FALSE, panic |-> ErrNil]
    ELSE IF ns[al.head].next = Nil
    THEN [al |-> [head |-> Nil, tail |-> Nil], nodes |-> ns,
          key |-> ns[al.head].key, ok |-> TRUE, panic |-> ErrNil]
    ELSE [al |-> [al EXCEPT !.head = ns[al.head].next],
          nodes |-> [ns EXCEPT ![ns[al.head].next].prev = Nil],
          key |-> ns[al.head].key, ok |-> TRUE, panic |-> ErrNil]

\* accessList.removeFromTail
removeFromTail(al, ns) ==
    IF al.tail = Nil
    THEN [al |-> al, nodes |-> ns, key |-> 0, ok |-> FALSE, panic |-> ErrNil]
    ELSE IF al.head = Nil
    THEN [al |-> al, nodes |-> ns, key |-> 0, ok |-> FALSE, panic |-> PanicNilDeref]
    ELSE IF ns[al.head].next = Nil
    THEN [al |-> [head |-> Nil, tail |-> ns[al.tail].prev], nodes |-> ns,
          key |-> ns[al.tail].key, ok |-> TRUE, panic |-> ErrNil]
    ELSE IF ns[al.tail].prev = Nil
    THEN [al |-> al, nodes |-> ns, key |-> 0, ok |-> FALSE, panic |-> PanicNilDeref]
    ELSE [al |-> [al EXCEPT !.tail = ns[al.tail].prev],
          nodes |-> [ns EXCEPT ![ns[al.tail].prev].next = Nil],
          key |-> ns[al.tail].key, ok |-> TRUE, panic |-> ErrNil]

\* ----------------------------------------------------- memory.go: Store
\* Store.capacityLeftBytes
capacityLeftBytes(st) == st.capacityBytes - st.sizeBytes

RECURSIVE evict(_, _, _, _, _)
\* Store.evict: the loop, with evictedBytes as its running local
evict(st, ns, hp, bytes, evictedBytes) ==
    IF ~(evictedBytes < bytes)
    THEN [s |-> st, nodes |-> ns, panic |-> ErrNil, victims |-> <<>>]
    ELSE LET r == removeFromTail(st.al, ns)
             st1 == [st EXCEPT !.al = r.al]
             rest == evict([st1 EXCEPT !.data =
                               [k \in DOMAIN st.data \ {r.key} |-> st.data[k]]],
                           r.nodes, hp, bytes,
                           evictedBytes + Len(hp[st.data[r.key].data]))
         IN  IF r.panic # ErrNil
             THEN [s |-> st1, nodes |-> r.nodes, panic |-> r.panic,
                   victims |-> <<>>]
             ELSE IF ~r.ok
             THEN [s |-> st1, nodes |-> r.nodes, panic |-> PanicNoItems,
                   victims |-> <<>>]
             ELSE IF r.key \notin DOMAIN st.data
             THEN [s |-> st1, nodes |-> r.nodes, panic |-> PanicKeyNotFound,
                   victims |-> <<>>]
             ELSE [rest EXCEPT !.victims = <<r.key>> \o @]

\* time.Time.IsZero
IsZero(t) == t = ZeroTime

\* Get's expiry test with the deadline itself counted as expired
expiredAtDeadline(i, t) == ~IsZero(i.expires) /\ i.expires <= t

\* Get's expiry test: !i.expires.IsZero() && i.expires.Before(time.Now())
expired(i, t) == ~IsZero(i.expires) /\ i.expires < t

\* Set handing the caller's slice to the item instead of a copy
aliasBytes(hp, dataCopy, data) == [heap |-> hp, data |-> data]

\* Set's dataCopy := make([]byte, len(data)); copy(dataCopy, data)
copyBytes(hp, dataCopy, data) ==
    [heap |-> [hp EXCEPT ![dataCopy] = hp[data]], data |-> dataCopy]

\* Get deleting the entry it finds expired, and its node
GetBodyPurging(st, ns, key, node) ==
    LET ok == key \in DOMAIN st.data
        i == IF ok THEN st.data[key] ELSE ZeroItem
    IN  IF ~ok
        THEN [s |-> st, nodes |-> ns, ret |-> Nil, err |-> ErrNoEntry]
        ELSE LET r == remove(st.al, ns, i.alNode)
                 a == addToHead(r.al, r.nodes, key, node)
                 i1 == [i EXCEPT !.alNode = a.al.head]
             IN  IF r.panic # ErrNil
                 THEN [s |-> [st EXCEPT !.al = r.al], nodes |-> r.nodes,
                       ret |-> Nil, err |-> r.panic]
                 ELSE IF expired(i, now)
                 THEN [s |-> [st EXCEPT !.al = r.al,
                                        !.data = [k \in DOMAIN st.data \ {key} |->
                                                    st.data[k]]],
                       nodes |-> r.nodes, ret |-> Nil, err |-> ErrNoEntry]
                 ELSE [s |-> [st EXCEPT !.al = a.al, !.data[key] = i1],
                       nodes |-> a.nodes, ret |-> i1.data, err |-> ErrNil]

\* Store.Get on store st: node is the address addToHead allocates.
\* The result carries the returned slice (an address) and error.
GetBody(st, ns, key, node) ==
    LET ok == key \in DOMAIN st.data
        i == IF ok THEN st.data[key] ELSE ZeroItem
    IN  IF ~ok
        THEN [s |-> st, nodes |-> ns, ret |-> Nil, err |-> ErrNoEntry]
        ELSE IF expired(i, now)
        THEN [s |-> st, nodes |-> ns, ret |-> Nil, err |-> ErrNoEntry]
        ELSE LET r == remove(st.al, ns, i.alNode)
                 a == addToHead(r.al, r.nodes, key, node)
                 i1 == [i EXCEPT !.alNode = a.al.head]
             IN  IF r.panic # ErrNil
                 THEN [s |-> [st EXCEPT !.al = r.al], nodes |-> r.nodes,
                       ret |-> Nil, err |-> r.panic]
                 ELSE [s |-> [st EXCEPT !.al = a.al, !.data[key] = i1],
                       nodes |-> a.nodes, ret |-> i1.data, err |-> ErrNil]

\* Store.Set on store st: d is the address of the caller's slice, node and
\* dataCopy the addresses the two allocations return.
SetBody(st, ns, hp, key, d, ttl, node, dataCopy) ==
    LET ok == key \in DOMAIN st.data
        i == IF ok THEN st.data[key] ELSE ZeroItem
        bytesNeeded == IF ok THEN Len(hp[d]) - Len(hp[i.data]) ELSE Len(hp[d])
        leftBytes == capacityLeftBytes(st)
        e == IF bytesNeeded > leftBytes
             THEN evict(st, ns, hp, bytesNeeded - leftBytes, 0)
             ELSE [s |-> st, nodes |-> ns, panic |-> ErrNil, victims |-> <<>>]
        c == copyBytes(hp, dataCopy, d)
        hp1 == c.heap
        st1 == [e.s EXCEPT !.sizeBytes = @ + bytesNeeded]
        r == IF i.alNode # Nil
             THEN remove(st1.al, e.nodes, i.alNode)
             ELSE [al |-> st1.al, nodes |-> e.nodes, panic |-> ErrNil]
        a == addToHead(r.al, r.nodes, key, node)
        i1 == [data |-> c.data, expires |-> now + ttl, alNode |-> a.al.head]
    IN  IF bytesNeeded > st.capacityBytes
        THEN [s |-> st, nodes |-> ns, heap |-> hp, err |-> ErrEntryIsTooBig,
              victims |-> <<>>]
        ELSE IF e.panic # ErrNil
        THEN [s |-> e.s, nodes |-> e.nodes, heap |-> hp, err |-> e.panic,
              victims |-> e.victims]
        ELSE IF r.panic # ErrNil
        THEN [s |-> [st1 EXCEPT !.al = r.al], nodes |-> r.nodes, heap |-> hp1,
              err |-> r.panic, victims |-> e.victims]
        ELSE [s |-> [st1 EXCEPT !.al = a.al,
                                !.data = [k \in DOMAIN st1.data \cup {key} |->
                                            IF k = key THEN i1 ELSE st1.data[k]]],
              nodes |-> a.nodes, heap |-> hp1, err |-> ErrNil,
              victims |-> e.victims]

\* ------------------------------------------------- addresses (Go runtime)
RECURSIVE NodeClosure(_, _)
NodeClosure(ns, S) ==
    LET T == (S \cup {ns[n].next : n \in S} \cup {ns[n].prev : n \in S}) \ {Nil}
    IN  IF T = S THEN S ELSE NodeClosure(ns, T)

\* The nodes some pointer still leads to; every other node is garbage.
UsedNodes(st, ns) ==
    NodeClosure(ns, ({st.al.head, st.al.tail}
                     \cup {st.data[k].alNode : k \in DOMAIN st.data}) \ {Nil})

\* The byte arrays some slice still refers to.
UsedBufs(st, cl) ==
    ({st.data[k].data : k \in DOMAIN st.data} \cup {cl.in, cl.out}) \ {Nil}

\* Allocation returns an address nothing refers to.
FreshNode == CHOOSE n \in NodeIds \ UsedNodes(s, nodes) : TRUE
FreshBuf == CHOOSE b \in BufIds \ UsedBufs(s, caller) : TRUE
FreshBuf2 == CHOOSE b \in BufIds \ (UsedBufs(s, caller) \cup {FreshBuf}) : TRUE

\* Addresses are not observable: after each call the live objects are
\* renamed (a node by its key, a store-owned array by its key, the caller's
\* own arrays after them) and garbage is cleared.  When two live nodes carry
\* one key the names are left as they are.
NodeName(st, ns) ==
    LET U == UsedNodes(st, ns)
        inj == /\ \A a \in U : ns[a].key \in Keys
               /\ \A a, b \in U : a # b => ns[a].key # ns[b].key
    IN  [n \in U \cup {Nil} |-> IF n = Nil THEN Nil
                                ELSE IF inj THEN ns[n].key ELSE n]

BufName(st, cl) ==
    LET D == DOMAIN st.data
        owned == {st.data[k].data : k \in D}
        inj == /\ Nil \notin owned
               /\ \A j, k \in D : j # k => st.data[j].data # st.data[k].data
    IN  [b \in UsedBufs(st, cl) \cup {Nil} |->
            IF b = Nil THEN Nil
            ELSE IF ~inj THEN b
            ELSE IF b \in owned THEN CHOOSE k \in D : st.data[k].data = b
            ELSE IF b = cl.in THEN MaxKeys + 1
            ELSE MaxKeys + 2]

Normalise(st, ns, hp, cl) ==
    LET f == NodeName(st, ns)
        g == BufName(st, cl)
        U == UsedNodes(st, ns)
        B == UsedBufs(st, cl)
    IN  [s |-> [st EXCEPT
                  !.al = [head |-> f[st.al.head], tail |-> f[st.al.tail]],
                  !.data = [k \in DOMAIN st.data |->
                              [data |-> g[st.data[k].data],
                               expires |-> st.data[k].expires,
                               alNode |-> f[st.data[k].alNode]]]],
         nodes |-> [m \in NodeIds |->
                      IF \E n \in U : f[n] = m
                      THEN LET n == CHOOSE x \in U : f[x] = m
                           IN  [key |-> ns[n].key, next |-> f[ns[n].next],
                                prev |-> f[ns[n].prev]]
                      ELSE NoNode],
         heap |-> [m \in BufIds |->
                      IF \E b \in B : g[b] = m
                      THEN hp[CHOOSE b \in B : g[b] = m]
                      ELSE <<>>],
         caller |-> [cl EXCEPT !.in = g[cl.in], !.out = g[cl.out]]]

\* ------------------------------------------------------- httpresp.go
\* http.Header: name -> list of values; a missing name is no entry
NoHeader == <<>>
\* http.Header.Set
HeaderSet(h, name, value) ==
    [n \in DOMAIN h \cup {name} |-> IF n = name THEN <<value>> ELSE h[n]]
\* http.Header.Get: the first value of name, "" when there is none
HeaderGet(h, name) ==
    IF name \in DOMAIN h /\ Len(h[name]) > 0 THEN h[name][1] ELSE ""
\* copyHeader
copyHeader(dst, src) ==
    [n \in DOMAIN dst \cup DOMAIN src |-> IF n \in DOMAIN src THEN src[n] ELSE dst[n]]

\* The real http.ResponseWriter: its header map, the status and the headers
\* it sent (code 0: none yet), the body bytes it sent.
NewWriter == [header |-> NoHeader, wroteHeader |-> FALSE, code |-> 0,
              sent |-> NoHeader, body |-> <<>>]
\* http.ResponseWriter.WriteHeader: the first call sends status and headers
wWriteHeader(w, code) ==
    IF w.wroteHeader THEN w
    ELSE [w EXCEPT !.wroteHeader = TRUE, !.code = code, !.sent = w.header]
\* http.ResponseWriter.Write: sends 200 first when no status was sent
wWrite(w, buf) ==
    [wWriteHeader(w, 200) EXCEPT !.body = @ \o buf]

\* newHttpResponseRecorder: rw is held by reference, here beside it
newHttpResponseRecorder ==
    [statusCode |-> 0, body |-> <<>>, header |-> NoHeader, wroteHeader |-> FALSE]

\* WriteHeader without the wroteHeader guard
recWriteHeaderAgain(p, statusCode) ==
    [rec |-> [p.rec EXCEPT !.wroteHeader = TRUE, !.statusCode = statusCode],
     w |-> [wWriteHeader([p.w EXCEPT !.header = copyHeader(@, p.rec.header)],
                         statusCode) EXCEPT !.code = statusCode]]

\* WriteHeader copying the headers after the real writer sent the status
recWriteHeaderLate(p, statusCode) ==
    IF p.rec.wroteHeader THEN p
    ELSE [rec |-> [p.rec EXCEPT !.wroteHeader = TRUE, !.statusCode = statusCode],
          w |-> [wWriteHeader(p.w, statusCode) EXCEPT
                   !.header = copyHeader(@, p.rec.header)]]

\* httpResponseRecorder.WriteHeader on the pair (recorder, real writer)
recWriteHeader(p, statusCode) ==
    IF p.rec.wroteHeader THEN p
    ELSE [rec |-> [p.rec EXCEPT !.wroteHeader = TRUE, !.statusCode = statusCode],
          w |-> wWriteHeader([p.w EXCEPT !.header = copyHeader(@, p.rec.header)],
                             statusCode)]

\* Write without the WriteHeader(200) of a recorder not yet committed
recWriteNoCommit(p, buf) ==
    [rec |-> [p.rec EXCEPT !.body = @ \o buf], w |-> wWrite(p.w, buf)]

\* httpResponseRecorder.Write: io.MultiWriter(respWriter, &body)
recWrite(p, buf) ==
    LET q == IF ~p.rec.wroteHeader THEN recWriteHeader(p, 200) ELSE p
    IN  [rec |-> [q.rec EXCEPT !.body = @ \o buf], w |-> wWrite(q.w, buf)]

\* httpResponseRecorder.Header().Set(name, value)
recHeaderSet(p, name, value) ==
    [p EXCEPT !.rec.header = HeaderSet(@, name, value)]

\* ------------------------------------------------ the downstream handler
\* A handler is the list of calls it makes on the writer it is given.
OpHeader(name, value) == [op |-> "Header", name |-> name, value |-> value, code |-> 0]
OpWriteHeader(code) == [op |-> "WriteHeader", name |-> "", value |-> "", code |-> code]
OpWrite(value) == [op |-> "Write", name |-> "", value |-> value, code |-> 0]

RECURSIVE runOnRecorder(_, _)
\* next.ServeHTTP(rec, r)
runOnRecorder(p, ops) ==
    IF ops = <<>> THEN p
    ELSE LET o == Head(ops)
             q == IF o.op = "Header" THEN recHeaderSet(p, o.name, o.value)
                  ELSE IF o.op = "WriteHeader" THEN recWriteHeader(p, o.code)
                  ELSE recWrite(p, <<o.value>>)
         IN  runOnRecorder(q, Tail(ops))

RECURSIVE runOnWriter(_, _)
\* next.ServeHTTP(w, r)
runOnWriter(w, ops) ==
    IF ops = <<>> THEN w
    ELSE LET o == Head(ops)
             v == IF o.op = "Header" THEN [w EXCEPT !.header = HeaderSet(@, o.name, o.value)]
                  ELSE IF o.op = "WriteHeader" THEN wWriteHeader(w, o.code)
                  ELSE wWrite(w, <<o.value>>)
         IN  runOnWriter(v, Tail(ops))

\* ------------------------------------------------------ httpcache.go
\* A URL is its path and its query, the list of name=value pairs in the
\* order written; names and values are numbered in lexicographic order.
RECURSIVE ValuesOf(_, _)
\* url.URL.Query: the values of name n, in the order written
ValuesOf(q, n) ==
    IF q = <<>> THEN <<>>
    ELSE (IF Head(q)[1] = n THEN <<Head(q)[2]>> ELSE <<>>) \o ValuesOf(Tail(q), n)
Query(q) == [n \in {q[i][1] : i \in DOMAIN q} |-> ValuesOf(q, n)]

RECURSIVE Insert(_, _)
Insert(sorted, x) ==
    IF sorted = <<>> THEN <<x>>
    ELSE IF x < Head(sorted) THEN <<x>> \o sorted
    ELSE <<Head(sorted)>> \o Insert(Tail(sorted), x)
RECURSIVE SortSlice(_)
\* sort.Slice(param, func(i, j) bool { return param[i] < param[j] })
SortSlice(seq) == IF seq = <<>> THEN <<>> ELSE Insert(SortSlice(Tail(seq)), Head(seq))

RECURSIVE Encode(_, _)
\* url.Values.Encode: names in sorted order, each name's values in order
Encode(params, names) ==
    IF names = {} THEN <<>>
    ELSE LET n == CHOOSE x \in names : \A y \in names : x <= y
         IN  [i \in 1..Len(params[n]) |-> <<n, params[n][i]>>]
             \o Encode(params, names \ {n})

\* sortURLParams leaving each name's values in the order written
sortURLParamsNamesOnly(u) ==
    [u EXCEPT !.query = Encode(Query(u.query), DOMAIN Query(u.query))]

\* sortURLParams
sortURLParams(u) ==
    LET params == Query(u.query)
        sorted == [n \in DOMAIN params |-> SortSlice(params[n])]
    IN  [u EXCEPT !.query = Encode(sorted, DOMAIN sorted)]

\* fnvHashKeyGenerator.Generate: the 64-bit FNV-1a hash of the string, taken
\* to tell any two of the strings met here apart
Generate(str) == str

\* middleware.generateKey
generateKey(u) == Generate(sortURLParams(u))

\* isCacheable letting every method through
isCacheableAnyMethod(r) == r.method # ""

\* middleware.isCacheable
isCacheable(r) == r.method = "GET"

BypassHeader == "X-Bypass-Cache"
\* headerBypassCacheFunc asking for the header name instead of its value
headerBypassByName(header, r) == HeaderGet(r.header, "") # ""

\* headerBypassCacheFunc(header)
headerBypassCacheFunc(header, r) == HeaderGet(r.header, header) # ""
\* m.bypassCache with the default options
bypassCache(r) == headerBypassCacheFunc(BypassHeader, r)

\* defaultOptions: ttl in hours, the bypass header, whether onError is set
DefaultTTL == 24
defaultOptions == [ttl |-> DefaultTTL, header |-> BypassHeader, onError |-> "noop"]
ErrTTL == "ttl must be > 0"
ErrHeader == "header must not be empty"
ErrFunc == "function must not be nil"

\* WithTTL rejecting every ttl that is not positive
WithTTLPositive(ttl, o) ==
    IF ttl <= 0 THEN [o |-> o, err |-> ErrTTL]
    ELSE [o |-> [o EXCEPT !.ttl = ttl], err |-> ErrNil]

\* WithTTL(ttl) applied to the options o
WithTTL(ttl, o) ==
    IF ttl = 0 THEN [o |-> o, err |-> ErrTTL]
    ELSE [o |-> [o EXCEPT !.ttl = ttl], err |-> ErrNil]
\* WithBypassCacheHeader(header) applied to o
WithBypassCacheHeader(header, o) ==
    IF header = "" THEN [o |-> o, err |-> ErrHeader]
    ELSE [o |-> [o EXCEPT !.header = header], err |-> ErrNil]
\* WithOnErrorFunc(f) applied to o
WithOnErrorFunc(f, o) ==
    IF f = "nil" THEN [o |-> o, err |-> ErrFunc]
    ELSE [o |-> [o EXCEPT !.onError = f], err |-> ErrNil]
\* opt(&options)
Apply(opt, o) ==
    IF opt.name = "WithTTL" THEN WithTTL(opt.ttl, o)
    ELSE IF opt.name = "WithBypassCacheHeader" THEN WithBypassCacheHeader(opt.header, o)
    ELSE WithOnErrorFunc(opt.f, o)

RECURSIVE ApplyAll(_, _)
\* NewMiddleware's loop over opts: the first error ends it
ApplyAll(opts, o) ==
    IF opts = <<>> THEN [o |-> o, err |-> ErrNil]
    ELSE LET a == Apply(Head(opts), o)
         IN  IF a.err # ErrNil THEN a ELSE ApplyAll(Tail(opts), a.o)

\* NewMiddleware(store, opts...): the middleware m and a nil error, or no
\* middleware (the zero m) and the error; opts is kept for reference
NewMiddleware(opts) ==
    LET a == ApplyAll(opts, defaultOptions)
    IN  IF a.err # ErrNil
        THEN [m |-> [ttl |-> 0, header |-> "", onError |-> "nil"], err |-> a.err,
              opts |-> opts]
        ELSE [m |-> a.o, err |-> ErrNil, opts |-> opts]

\* newCachedResponse
newCachedResponse(rec) ==
    [StatusCode |-> rec.statusCode, Body |-> rec.body, Header |-> rec.header]

\* an encoding that keeps the first value of each header name only
gobEncodeFirstValue(cr) ==
    [valid |-> TRUE,
     fields |-> {"Header"} \cup (IF cr.StatusCode # 0 THEN {"StatusCode"} ELSE {})
                           \cup (IF Len(cr.Body) > 0 THEN {"Body"} ELSE {}),
     StatusCode |-> cr.StatusCode, Body |-> cr.Body,
     Header |-> [n \in DOMAIN cr.Header |->
                   IF Len(cr.Header[n]) > 1 THEN <<cr.Header[n][1]>>
                   ELSE cr.Header[n]]]

\* gob.Encoder.Encode of a cachedResponse: a field holding its zero value is
\* left out of the blob; the header map is sent, being non-nil
gobEncode(cr) ==
    [valid |-> TRUE,
     fields |-> {"Header"} \cup (IF cr.StatusCode # 0 THEN {"StatusCode"} ELSE {})
                           \cup (IF Len(cr.Body) > 0 THEN {"Body"} ELSE {}),
     StatusCode |-> cr.StatusCode, Body |-> cr.Body, Header |-> cr.Header]
\* a blob that is no encoding of a cachedResponse
CorruptBlob ==
    [valid |-> FALSE, fields |-> {}, StatusCode |-> 0, Body |-> <<>>,
     Header |-> NoHeader]
ErrDecode == "failed to decode object"
ErrSave == "failed to save response to store"
ErrStore == "store error"
ErrDeadline == "context deadline exceeded"
\* gob.Decoder.Decode into a zero cachedResponse
gobDecode(blob) ==
    IF ~blob.valid
    THEN [cr |-> [StatusCode |-> 0, Body |-> <<>>, Header |-> NoHeader],
          err |-> ErrDecode]
    ELSE [cr |-> [StatusCode |-> IF "StatusCode" \in blob.fields
                                 THEN blob.StatusCode ELSE 0,
                  Body |-> IF "Body" \in blob.fields THEN blob.Body ELSE <<>>,
                  Header |-> IF "Header" \in blob.fields THEN blob.Header
                             ELSE NoHeader],
          err |-> ErrNil]

\* Store.Get of the Store the middleware was given: fault is what goes wrong
\* in this call ("fail": the store errs, "corrupt": the blob is damaged,
\* "deadline": the call's context is done before the store has the answer).
StoreGet(st, key, fault) ==
    IF fault = "fail" THEN [data |-> CorruptBlob, err |-> ErrStore]
    ELSE IF fault = "deadline" THEN [data |-> CorruptBlob, err |-> ErrDeadline]
    ELSE IF key \notin DOMAIN st THEN [data |-> CorruptBlob, err |-> ErrNoEntry]
    ELSE [data |-> IF fault = "corrupt" THEN CorruptBlob ELSE st[key],
          err |-> ErrNil]

\* Store.Set of that Store ("toobig": the value exceeds its capacity)
StoreSet(st, key, value, ttl, fault) ==
    IF fault = "fail" THEN [kv |-> st, err |-> ErrStore, ttl |-> ttl]
    ELSE IF fault = "toobig" THEN [kv |-> st, err |-> ErrEntryIsTooBig, ttl |-> ttl]
    ELSE IF fault = "deadline" THEN [kv |-> st, err |-> ErrDeadline, ttl |-> ttl]
    ELSE [kv |-> [k \in DOMAIN st \cup {key} |-> IF k = key THEN value ELSE st[k]],
          err |-> ErrNil, ttl |-> ttl]

\* getCachedResponse reporting a blob it cannot decode as a missing entry
getCachedResponseLenient(st, key, fault) ==
    LET g == StoreGet(st, key, fault)
        d == gobDecode(g.data)
    IN  IF g.err # ErrNil THEN [cr |-> d.cr, err |-> g.err]
        ELSE IF d.err # ErrNil THEN [cr |-> d.cr, err |-> ErrNoEntry]
        ELSE [cr |-> d.cr, err |-> ErrNil]

\* middleware.getCachedResponse
getCachedResponse(st, key, fault) ==
    LET g == StoreGet(st, key, fault)
        d == gobDecode(g.data)
    IN  IF g.err # ErrNil THEN [cr |-> d.cr, err |-> g.err]
        ELSE IF d.err # ErrNil THEN [cr |-> d.cr, err |-> ErrDecode]
        ELSE [cr |-> d.cr, err |-> ErrNil]

\* saveCachedResponse storing an emptied response when the store refuses
saveCachedResponseRetry(st, key, res, ttl, fault) ==
    LET x == StoreSet(st, key, gobEncode(res), ttl, fault)
    IN  IF x.err # ErrNil
        THEN StoreSet(st, key, gobEncode([res EXCEPT !.Body = <<>>]), ttl, "none")
        ELSE x

\* middleware.saveCachedResponse
saveCachedResponse(st, key, res, ttl, fault) ==
    LET x == StoreSet(st, key, gobEncode(res), ttl, fault)
    IN  IF x.err # ErrNil THEN [x EXCEPT !.err = ErrSave] ELSE x

\* the test letting status 400 through
isErrorAbove400(rec) == rec.statusCode > 400

\* ServeHTTP's test after the handler returned: do not cache errors
isError(rec) == rec.statusCode >= 400

NoPanic == ""
PanicInvalidCode == "invalid WriteHeader code"
\* net/http's check in WriteHeader of the real writer: a code outside
\* 100..999 panics
checkWriteHeaderCode(code) == code >= 100 /\ code <= 999

\* middleware.ServeHTTP of the middleware m, for the request r, a fresh real
\* writer, the downstream handler ops and the faults of the two store
\* calls.  log lists the calls made on the store, the handler and the error
\* callback; ttls the ttl of each Store.Set; panic is the panic the call
\* ended in, if any.
ServeHTTP(m, st, r, ops, getFault, setFault) ==
    LET key == generateKey(r.url)
        g == getCachedResponse(st, key, getFault)
        p == runOnRecorder([rec |-> newHttpResponseRecorder, w |-> NewWriter], ops)
        sv == saveCachedResponse(st, key, newCachedResponse(p.rec), m.ttl,
                                 setFault)
    IN  IF ~isCacheable(r) \/ headerBypassCacheFunc(m.header, r)
        THEN [kv |-> st, w |-> runOnWriter(NewWriter, ops),
              log |-> <<"next(w)">>, errors |-> <<>>, ttls |-> <<>>, panic |-> NoPanic]
        ELSE IF g.err = ErrNoEntry
        THEN IF isError(p.rec)
             THEN [kv |-> st, w |-> p.w, log |-> <<"Get", "next(rec)">>,
                   errors |-> <<>>, ttls |-> <<>>, panic |-> NoPanic]
             ELSE [kv |-> sv.kv, w |-> p.w,
                   log |-> <<"Get", "next(rec)", "Set">>
                           \o (IF sv.err # ErrNil THEN <<"onError">> ELSE <<>>),
                   errors |-> IF sv.err # ErrNil THEN <<sv.err>> ELSE <<>>,
                   ttls |-> <<sv.ttl>>, panic |-> NoPanic]
        ELSE IF g.err # ErrNil
        THEN [kv |-> st, w |-> runOnWriter(NewWriter, ops),
              log |-> <<"Get", "onError", "next(w)">>, errors |-> <<g.err>>,
              ttls |-> <<>>, panic |-> NoPanic]
        ELSE IF ~checkWriteHeaderCode(g.cr.StatusCode)
        THEN [kv |-> st,
              w |-> [NewWriter EXCEPT !.header = copyHeader(@, g.cr.Header)],
              log |-> <<"Get">>, errors |-> <<>>, ttls |-> <<>>,
              panic |-> PanicInvalidCode]
        ELSE [kv |-> st,
              w |-> wWrite(wWriteHeader([NewWriter EXCEPT
                                           !.header = copyHeader(@, g.cr.Header)],
                                        g.cr.StatusCode),
                           g.cr.Body),
              log |-> <<"Get">>, errors |-> <<>>, ttls |-> <<>>, panic |-> NoPanic]

\* ------------------------------------------------------------ history
\* k becomes the most recently used key
Touch(seq, k) == <<k>> \o SelectSeq(seq, LAMBDA x : x # k)
\* only resident keys have a recency
Resident(seq, st) == SelectSeq(seq, LAMBDA x : x \in DOMAIN st.data)

\* a slice of n bytes, each b
Payload(n, b) == [i \in 1..n |-> b]

\* ------------------------------------------------------------ the calls
InitStore ==
    /\ s \in {[sizeBytes |-> 0, capacityBytes |-> c, data |-> <<>>,
               al |-> [head |-> Nil, tail |-> Nil]] : c \in Capacities}
    /\ nodes = [n \in NodeIds |-> NoNode]
    /\ heap = [b \in BufIds |-> <<>>]
    /\ now = StartTime
    /\ caller = [op |-> "none", key |-> Nil, arg |-> <<>>, at |-> StartTime,
                 err |-> ErrNil, got |-> <<>>, in |-> Nil, inKey |-> Nil,
                 out |-> Nil, outKey |-> Nil]
    /\ recency = <<>>
    /\ lastSet = <<>>
    /\ victims = <<>>
    /\ recovered = FALSE

\* no timeout configured
NoTimeout == 0
\* The context a store call runs under when the timeout option is set ends
\* after timeout; a store that needs delay to answer is cut short by it.
deadlineNever(timeout, delay) == "none"

deadlineFault(timeout, delay) ==
    IF timeout # NoTimeout /\ delay > timeout THEN "deadline" ELSE "none"
\* how long the middleware waits for that call
waitedFor(timeout, delay) ==
    IF timeout # NoTimeout /\ delay > timeout THEN timeout ELSE delay

NoRequest == [method |-> "", url |-> [path |-> "", query |-> <<>>],
              header |-> NoHeader]
InitMw ==
    /\ kv = <<>>
    /\ served = [some |-> FALSE, r |-> NoRequest, direct |-> NewWriter,
                 again |-> FALSE, w |-> NewWriter, log |-> <<>>, errors |-> <<>>,
                 getFault |-> "none", setFault |-> "none", found |-> FALSE,
                 panic |-> NoPanic, timeout |-> NoTimeout, getDelay |-> 0,
                 waits |-> <<>>, ttls |-> <<>>]
    /\ mw = NewMiddleware(<<>>)

NoURL == [path |-> "", query |-> <<>>]
NoProbe == [u |-> <<NoURL, NoURL>>, keys |-> <<>>]

\* rr := newHttpResponseRecorder(httptest.NewRecorder())
InitRecorder ==
    rr = [p |-> [rec |-> newHttpResponseRecorder, w |-> NewWriter],
          n |-> 0, last |-> OpWrite("")]

\* sync.RWMutex zero value: unlocked (only Lock and Unlock are used)
Unlocked == 0
NoCall == [op |-> "none", key |-> Nil, len |-> 0]
Threads == 1..MaxThreads
\* no goroutine is inside the store
InitThreads ==
    th = [mutex |-> Unlocked,
          t |-> [i \in Threads |-> [pc |-> "idle", call |-> NoCall]],
          seq |-> [s |-> <<>>, nodes |-> <<>>, err |-> ErrNil]]

\* cachedResponse{}, not saved yet
NoRoundTrip ==
    [r |-> [StatusCode |-> 0, Body |-> <<>>, Header |-> NoHeader], step |-> 0,
     kv |-> <<>>, back |-> [cr |-> [StatusCode |-> 0, Body |-> <<>>,
                                    Header |-> NoHeader], err |-> ErrNil]]

Init ==
    /\ InitStore /\ InitMw /\ probe = NoProbe /\ InitRecorder /\ InitThreads
    /\ rt = NoRoundTrip

\* The caller makes a slice holding payload and calls store.Set(key, slice,
\* ttl); keep says whether it holds on to the slice afterwards.
SetStep(key, payload, ttl, keep) ==
    \E d \in {FreshBuf} :
    \E r \in {SetBody(s, nodes, [heap EXCEPT ![d] = payload], key, d, ttl,
                      FreshNode, FreshBuf2)} :
    \E n \in {Normalise(r.s, r.nodes, r.heap,
                         [caller EXCEPT !.op = "Set", !.key = key, !.at = now,
                                        !.arg = payload,
                                        !.err = r.err, !.got = <<>>,
                                        !.in = IF keep THEN d ELSE @,
                                        !.inKey = IF keep THEN key ELSE @])} :
        /\ s' = n.s
        /\ nodes' = n.nodes
        /\ heap' = n.heap
        /\ caller' = n.caller
        /\ recency' = Resident(IF r.err = ErrNil THEN Touch(recency, key)
                               ELSE recency, r.s)
        /\ lastSet' = [k \in DOMAIN r.s.data |->
                          IF k = key /\ r.err = ErrNil
                          THEN [at |-> now, ttl |-> ttl, d |-> payload]
                          ELSE lastSet[k]]
        /\ victims' = r.victims
        /\ recovered' = (recovered \/ caller.err \in Panics)

Set(key, payload, ttl, keep) ==
    SetStep(key, payload, ttl, keep) /\ UNCHANGED <<now, mwVars>>

\* The caller calls store.Get(key); keep says whether it holds on to the
\* returned slice afterwards.  got is what the slice held on return.
GetStep(key, keep) ==
    \E r \in {GetBody(s, nodes, key, FreshNode)} :
    \E n \in {Normalise(r.s, r.nodes, heap,
                         [caller EXCEPT !.op = "Get", !.key = key, !.at = now,
                                        !.arg = <<>>,
                                        !.err = r.err,
                                        !.got = IF r.ret = Nil THEN <<>>
                                                ELSE heap[r.ret],
                                        !.out = IF keep THEN r.ret ELSE @,
                                        !.outKey = IF keep THEN key ELSE @])} :
        /\ s' = n.s
        /\ nodes' = n.nodes
        /\ heap' = n.heap
        /\ caller' = n.caller
        /\ recency' = Resident(IF r.err = ErrNil THEN Touch(recency, key)
                               ELSE recency, r.s)
        /\ victims' = <<>>
        /\ recovered' = (recovered \/ caller.err \in Panics)
        /\ UNCHANGED lastSet

Get(key, keep) == GetStep(key, keep) /\ UNCHANGED <<now, mwVars>>

\* What the call makes of the store when it runs alone from the present state.
Alone(call) ==
    LET r == IF call.op = "Set"
             THEN SetBody(s, nodes, [heap EXCEPT ![FreshBuf] = Payload(call.len, 0)],
                          call.key, FreshBuf, 1, FreshNode, FreshBuf2)
             ELSE [GetBody(s, nodes, call.key, FreshNode) EXCEPT !.ret = Nil]
        n == Normalise(r.s, r.nodes, heap, caller)
    IN  [s |-> n.s, nodes |-> n.nodes, err |-> r.err]

\* A goroutine calls Get or Set: it reaches s.mutex.Lock().
Call(t, call) ==
    /\ th.t[t].pc = "idle"
    /\ th' = [th EXCEPT !.t[t] = [pc |-> "waiting", call |-> call]]
    /\ UNCHANGED <<storeVars, kv, served, mw, probe, rr, rt>>

\* always: the guard of Lock with the mutex left out
mutexIgnored(m) == TRUE

\* s.mutex.Lock() returns only when no goroutine holds the mutex
mutexFree(m) == m = Unlocked

\* s.mutex.Lock() returns
Lock(t) ==
    /\ th.t[t].pc = "waiting"
    /\ mutexFree(th.mutex)
    /\ th' = [th EXCEPT !.mutex = t, !.t[t].pc = "locked",
                        !.seq = Alone(th.t[t].call)]
    /\ UNCHANGED <<storeVars, kv, served, mw, probe, rr, rt>>

\* the body of Get or Set, up to its return or panic
Body(t) ==
    /\ th.t[t].pc = "locked"
    /\ IF th.t[t].call.op = "Set"
       THEN SetStep(th.t[t].call.key, Payload(th.t[t].call.len, 0), 1, FALSE)
       ELSE GetStep(th.t[t].call.key, FALSE)
    /\ th' = [th EXCEPT !.t[t].pc = "returning"]
    /\ UNCHANGED <<now, kv, served, mw, probe, rr, rt>>

\* defer s.mutex.Unlock(): runs on return and on panic
Unlock(t) ==
    /\ th.t[t].pc = "returning"
    /\ th' = [th EXCEPT !.mutex = Unlocked, !.t[t] = [pc |-> "idle", call |-> NoCall]]
    /\ UNCHANGED <<storeVars, kv, served, mw, probe, rr, rt>>

\* time passes
Tick ==
    /\ now < MaxTime
    /\ now' = now + 1
    /\ UNCHANGED <<s, nodes, heap, caller, recency, lastSet, victims, recovered,
                   mwVars>>

\* The caller writes byte b at index i of the slice it passed to Set.
MutateIn(i, b) ==
    /\ caller.in # Nil
    /\ i \in 1..Len(heap[caller.in])
    /\ heap[caller.in][i] # b
    /\ heap' = [heap EXCEPT ![caller.in][i] = b]
    /\ caller' = [caller EXCEPT !.op = "write"]
    /\ UNCHANGED <<s, nodes, now, recency, lastSet, victims, recovered, mwVars>>

\* The caller writes byte b at index i of the slice Get returned.
MutateOut(i, b) ==
    /\ caller.out # Nil
    /\ i \in 1..Len(heap[caller.out])
    /\ heap[caller.out][i] # b
    /\ heap' = [heap EXCEPT ![caller.out][i] = b]
    /\ caller' = [caller EXCEPT !.op = "write"]
    /\ UNCHANGED <<s, nodes, now, recency, lastSet, victims, recovered, mwVars>>

\* The server hands the middleware request r; the downstream handler makes
\* the calls ops.  direct is what the handler writes when it is given the
\* real writer; again says the request repeats the one before it; found
\* says the store held an entry for the request's key when it arrived.
Serve(r, ops, getFault, setFault) ==
    /\ mw.err = ErrNil
    /\ \E x \in {ServeHTTP(mw.m, kv, r, ops, getFault, setFault)} :
        /\ kv' = x.kv
        /\ served' = [some |-> TRUE,
                      r |-> r, direct |-> runOnWriter(NewWriter, ops),
                      again |-> (served.some /\ r = served.r),
                      w |-> x.w, log |-> x.log, errors |-> x.errors,
                      getFault |-> getFault, setFault |-> setFault,
                      found |-> (generateKey(r.url) \in DOMAIN kv),
                      panic |-> x.panic, timeout |-> NoTimeout, getDelay |-> 0,
                      waits |-> <<>>, ttls |-> x.ttls]
        /\ UNCHANGED <<storeVars, mw, probe, rr, th, rt>>

\* The same with the timeout option set to timeout (NoTimeout: not set) over
\* a store that takes getDelay to answer Get and setDelay to answer Set.
ServeTimed(r, ops, timeout, getDelay, setDelay) ==
    /\ mw.err = ErrNil
    /\ \E gf \in {deadlineFault(timeout, getDelay)},
          sf \in {deadlineFault(timeout, setDelay)} :
       \E x \in {ServeHTTP(mw.m, kv, r, ops, gf, sf)} :
        /\ kv' = x.kv
        /\ served' = [some |-> TRUE,
                      r |-> r, direct |-> runOnWriter(NewWriter, ops),
                      again |-> (served.some /\ r = served.r),
                      w |-> x.w, log |-> x.log, errors |-> x.errors,
                      getFault |-> gf, setFault |-> sf,
                      found |-> (generateKey(r.url) \in DOMAIN kv),
                      panic |-> x.panic, timeout |-> timeout,
                      getDelay |-> getDelay,
                      waits |-> SelectSeq(<<[call |-> "Get",
                                             t |-> waitedFor(timeout, getDelay)],
                                            [call |-> "Set",
                                             t |-> waitedFor(timeout, setDelay)]>>,
                                          LAMBDA c : \E i \in DOMAIN x.log :
                                                        x.log[i] = c.call),
                      ttls |-> x.ttls]
        /\ UNCHANGED <<storeVars, mw, probe, rr, th, rt>>

\* The program builds its middleware anew, with the options opts.
Construct(opts) ==
    /\ mw' = NewMiddleware(opts)
    /\ UNCHANGED <<storeVars, kv, served, probe, rr, th, rt>>

\* The program derives the cache keys of the two URLs it holds.
DeriveKeys ==
    /\ probe.keys = <<>>
    /\ probe' = [probe EXCEPT !.keys = <<generateKey(probe.u[1]),
                                         generateKey(probe.u[2])>>]
    /\ UNCHANGED <<storeVars, kv, served, mw, rr, th, rt>>

\* the key the response is saved under
RoundTripKey == generateKey([path |-> "/", query |-> <<>>])

\* m.saveCachedResponse(ctx, key, rt.r)
SaveResponse ==
    /\ rt.step = 0
    /\ rt' = [rt EXCEPT !.step = 1,
                        !.kv = saveCachedResponse(rt.kv, RoundTripKey, rt.r,
                                                  mw.m.ttl, "none").kv]
    /\ UNCHANGED <<storeVars, kv, served, mw, probe, rr, th>>

\* m.getCachedResponse(ctx, key)
LoadResponse ==
    /\ rt.step = 1
    /\ rt' = [rt EXCEPT !.step = 2,
                        !.back = getCachedResponse(rt.kv, RoundTripKey, "none")]
    /\ UNCHANGED <<storeVars, kv, served, mw, probe, rr, th>>

\* The handler makes the call o on the recorder.
RecorderCall(o) ==
    /\ rr.n < MaxOps
    /\ rr' = [p |-> runOnRecorder(rr.p, <<o>>), n |-> rr.n + 1, last |-> o]
    /\ UNCHANGED <<storeVars, kv, served, mw, probe, th, rt>>

\* The store under calls that pass freshly made slices and keep none.
Next ==
    \/ \E k \in Keys, n \in Lens : Set(k, Payload(n, 0), 1, FALSE)
    \/ \E k \in Keys : Get(k, FALSE)

Spec == Init /\ [][Next]_vars

\* ------------------------------------------------------------- claims
RECURSIVE SumLen(_, _, _)
\* the sum of len(data) over the entries K of the map
SumLen(st, hp, K) ==
    IF K = {} THEN 0
    ELSE LET k == CHOOSE x \in K : TRUE
         IN  Len(hp[st.data[k].data]) + SumLen(st, hp, K \ {k})

ResidentBytes == SumLen(s, heap, DOMAIN s.data)

\* C1: after any sequence of completed Get and Set calls, sizeBytes equals
\* the sum of len(data) over the entries present in the map.
C1_SizeBytesIsResidentBytes ==
    (~recovered /\ caller.err \notin Panics) => s.sizeBytes = ResidentBytes

\* C2: no Set whose bytesNeeded is at most the capacity hits either panic
\* of evict (the list running empty, a listed key missing from the map).
C2_EvictNeverPanics ==
    ~recovered => caller.err \notin {PanicNoItems, PanicKeyNotFound}

\* C3: whenever a Set evicts, the i-th victim is the i-th least recently
\* used key (by successful Sets and live Gets) at that moment, so no key is
\* evicted while a less recently touched key stays resident.
C3_EvictsLeastRecentlyUsed ==
    [][(s' # s /\ victims' # <<>>) =>
         /\ Len(victims') <= Len(recency)
         /\ \A i \in 1..Len(victims') :
               victims'[i] = recency[Len(recency) - i + 1]]_vars

\* C3 witness: Set k1, Set k2, Get k1, Set k3 evicted k2 and kept k1, k3.
C3_Witness ==
    /\ caller.op = "Set" /\ caller.key = 3 /\ caller.err = ErrNil
    /\ victims = <<2>>
    /\ recency = <<3, 1>>
    /\ DOMAIN s.data = {1, 3}

\* C4: a Set whose payload is longer than the capacity returns
\* ErrEntryIsTooBig and leaves the map, the list and sizeBytes as they were.
C4_TooBigIsRejected ==
    [][(caller'.op = "Set" /\ (caller' # caller \/ s' # s)
        /\ Len(caller'.arg) > s.capacityBytes) =>
         /\ caller'.err = ErrEntryIsTooBig
         /\ s' = s
         /\ nodes' = nodes]_vars

\* ---------------------------------------------- the store and the clock
TTLKeys == {1, 2}
Bytes == {0, 1}
TTLs == 0..MaxTTL

NextTTL ==
    \/ \E k \in TTLKeys, n \in 1..MinCapacity, b \in Bytes, ttl \in TTLs :
          Set(k, Payload(n, b), ttl, FALSE)
    \/ \E k \in TTLKeys : Get(k, FALSE)
    \/ Tick

SpecTTL == Init /\ [][NextTTL]_vars

\* C5: after Set(k, d, ttl) with ttl > 0 and no later Set or eviction of k,
\* Get(k) returns d at every time up to setTime + ttl and ErrNoEntry at
\* every later time.
C5_LiveUntilExpiry ==
    (/\ caller.op = "Get"
     /\ caller.key \in DOMAIN lastSet
     /\ lastSet[caller.key].ttl > 0) =>
        IF caller.at <= lastSet[caller.key].at + lastSet[caller.key].ttl
        THEN caller.err = ErrNil /\ caller.got = lastSet[caller.key].d
        ELSE caller.err = ErrNoEntry

\* C5 witnesses: a Get at the last live instant, and one just after it
C5_Witness ==
    /\ caller.op = "Get" /\ caller.key \in DOMAIN lastSet
    /\ lastSet[caller.key].ttl > 0
    /\ caller.at = lastSet[caller.key].at + lastSet[caller.key].ttl
    /\ caller.err = ErrNil

C5_WitnessExpired ==
    /\ caller.op = "Get" /\ caller.key \in DOMAIN lastSet
    /\ lastSet[caller.key].ttl > 0
    /\ caller.at = lastSet[caller.key].at + lastSet[caller.key].ttl + 1
    /\ caller.err = ErrNoEntry

\* ------------------------------------- the store and the caller's slices
Payloads == UNION {[1..n -> Bytes] : n \in 0..MinCapacity}

\* The caller keeps and rewrites the slices it passed to Set.
NextCopyIn ==
    \/ \E k \in TTLKeys, p \in Payloads : Set(k, p, 1, TRUE)
    \/ \E k \in TTLKeys : Get(k, FALSE)
    \/ \E i \in 1..MinCapacity, b \in Bytes : MutateIn(i, b)

SpecCopyIn == Init /\ [][NextCopyIn]_vars

\* C6: whatever the caller writes to the slice it passed to Set, a later
\* live Get(k) returns the bytes the slice held at the time of the Set.
C6_SetCopiesItsInput ==
    (caller.op = "Get" /\ caller.err = ErrNil) =>
        caller.got = lastSet[caller.key].d

\* C6 witness: a live Get of k after the caller rewrote the slice it had
\* passed to the Set of k
C6_Witness ==
    /\ caller.op = "Get" /\ caller.err = ErrNil
    /\ caller.inKey = caller.key /\ caller.in # Nil
    /\ Len(heap[caller.in]) = Len(caller.got)
    /\ heap[caller.in] # caller.got

\* The caller keeps and rewrites the slices Get returned.
NextAlias ==
    \/ \E k \in TTLKeys, p \in Payloads : Set(k, p, 1, FALSE)
    \/ \E k \in TTLKeys : Get(k, TRUE)
    \/ \E i \in 1..MinCapacity, b \in Bytes : MutateOut(i, b)

SpecAlias == Init /\ [][NextAlias]_vars

\* C7: whatever the caller writes to a slice Get returned, the payload the
\* store holds stays the bytes that were Set.
C7_GetReturnsACopy ==
    \A k \in DOMAIN s.data : heap[s.data[k].data] = lastSet[k].d

\* ------------------------------------------------------ the middleware
\* "/", "/?foo=1&bar=2" and "/?bar=2&foo=1", bar being name 1 and foo name 2
URLs == {[path |-> "/", query |-> <<>>],
         [path |-> "/", query |-> <<<<2, 1>>, <<1, 2>>>>],
         [path |-> "/", query |-> <<<<1, 2>>, <<2, 1>>>>]}
\* no bypass header, one with a value, one with the empty value
RequestHeaders == {NoHeader, (BypassHeader :> <<"1">>), (BypassHeader :> <<"">>)}
Requests ==
    [method : {"GET"}, url : URLs, header : RequestHeaders]
    \cup [method : {"POST"}, url : {[path |-> "/", query |-> <<>>]},
          header : RequestHeaders]
ContentType == OpHeader("Content-Type", "foo/bar")
\* The downstream handlers tried: the one of TestMiddleware; a body with no
\* status; nothing at all; statuses at and above 400; a header set after
\* the status; a second status; two writes; a header and nothing else.
Handlers ==
    {<<ContentType, OpWriteHeader(201), OpWrite("h")>>,
     <<OpWrite("h")>>,
     <<>>,
     <<OpWriteHeader(400)>>,
     <<OpWriteHeader(500), OpWrite("h")>>,
     <<OpWriteHeader(201), ContentType, OpWrite("h")>>,
     <<OpWriteHeader(400), OpWriteHeader(201)>>,
     <<OpWriteHeader(201), OpWriteHeader(500)>>,
     <<OpWrite("h"), OpWrite("i")>>,
     <<ContentType>>}

\* The middleware over a Store that answers every call.
NextMw ==
    \E r \in Requests, ops \in Handlers : Serve(r, ops, "none", "none")

SpecMw == Init /\ [][NextMw]_vars

\* what the log of a request shows
Called(what) == Cardinality({i \in DOMAIN served.log : served.log[i] = what})
\* Store.Get answered ErrNoEntry and the handler ran on a recorder
IsMiss(sv) == Len(sv.log) >= 2 /\ sv.log[1] = "Get" /\ sv.log[2] = "next(rec)"
\* the key of the served request has an entry in the store
IsCached == generateKey(served.r.url) \in DOMAIN kv

\* C8: for a request whose method is not GET the middleware calls neither
\* Store.Get nor Store.Set and invokes the downstream handler exactly once,
\* with the original response writer.
C8_NonGetPassesThrough ==
    (served.some /\ served.r.method # "GET") =>
        /\ Called("Get") = 0 /\ Called("Set") = 0
        /\ Called("next(w)") = 1 /\ Called("next(rec)") = 0
        /\ served.w = served.direct

\* C8 witness: a POST served while its URL has an entry in the store
C8_Witness ==
    served.some /\ served.r.method = "POST" /\ IsCached

\* C9: for a GET request carrying the bypass header with a non-empty value
\* the middleware calls neither Store.Get nor Store.Set, cached entry or
\* not, and the handler writes the response to the original writer.
C9_BypassPassesThrough ==
    (/\ served.some /\ served.r.method = "GET"
     /\ BypassHeader \in DOMAIN served.r.header
     /\ served.r.header[BypassHeader] # <<>>
     /\ served.r.header[BypassHeader][1] # "") =>
        /\ Called("Get") = 0 /\ Called("Set") = 0
        /\ Called("next(w)") = 1 /\ Called("next(rec)") = 0
        /\ served.w = served.direct

\* C9 witness: a bypassing GET served while its key has an entry
C9_Witness ==
    /\ served.some /\ served.r.method = "GET"
    /\ HeaderGet(served.r.header, BypassHeader) = "1"
    /\ IsCached
    /\ served.log = <<"next(w)">>

\* C10: on a miss whose handler committed a status of 400 or more Store.Set
\* is not called, and the same request served next is again a miss that
\* invokes the handler.
C10_ErrorsAreNotCached ==
    [][/\ (IsMiss(served') /\ served'.w.code >= 400) =>
             \A i \in DOMAIN served'.log : served'.log[i] # "Set"
       /\ (served.some /\ IsMiss(served) /\ served.w.code >= 400
           /\ served'.r = served.r) =>
             IsMiss(served')]_vars

\* C10 witness: the same GET served twice, a miss with status 400 each time
C10_Witness ==
    /\ served.some /\ served.again
    /\ IsMiss(served) /\ served.w.code = 400
    /\ served.log = <<"Get", "next(rec)">>

\* the request is one the middleware looks up: a GET that does not bypass
IsLookup(r) == isCacheable(r) /\ ~bypassCache(r)
\* the cachedResponse the store holds for request r
Cached(st, r) == gobDecode(st[generateKey(r.url)]).cr

\* C11: on a hit the middleware writes the cached headers, then the cached
\* status, then the cached body to the real writer, and calls neither the
\* downstream handler nor Store.Set; a GET repeated after a miss that was
\* stored is such a hit, giving one Set and two Gets in total.
C11_HitReplaysTheEntry ==
    [][/\ (/\ served' # served /\ IsLookup(served'.r)
           /\ served'.getFault = "none"
           /\ generateKey(served'.r.url) \in DOMAIN kv) =>
             /\ served'.log = <<"Get">>
             /\ kv' = kv
             /\ served'.panic = NoPanic
             /\ served'.w.sent = Cached(kv, served'.r).Header
             /\ served'.w.code = Cached(kv, served'.r).StatusCode
             /\ served'.w.body = Cached(kv, served'.r).Body
       /\ (/\ served' # served /\ IsMiss(served) /\ Called("Set") = 1
           /\ served.errors = <<>>
           /\ served'.r = served.r /\ served'.getFault = "none") =>
             served'.log = <<"Get">>]_vars

\* ------------------------------------------- the middleware, store failing
GetFaults == {"none", "fail", "corrupt"}
SetFaults == {"none", "fail", "toobig"}
\* GET requests of two keys, none bypassing
FaultRequests ==
    {r \in Requests : /\ r.method = "GET" /\ r.header = NoHeader
                      /\ Len(r.url.query) \in {0, 2} /\ r = [r EXCEPT !.url = sortURLParams(@)]}
\* the handler of TestMiddleware, one that does nothing, one that only sets
\* a header, one that fails, one that sets a header after the status
FaultHandlers ==
    {<<ContentType, OpWriteHeader(201), OpWrite("h")>>,
     <<>>,
     <<ContentType>>,
     <<OpWriteHeader(400)>>,
     <<OpWriteHeader(201), ContentType, OpWrite("h")>>}

\* The middleware over a Store whose calls may fail or return damaged bytes.
NextMwFaults ==
    \E r \in FaultRequests, ops \in FaultHandlers, gf \in GetFaults, sf \in SetFaults :
        Serve(r, ops, gf, sf)

SpecMwFaults == Init /\ [][NextMwFaults]_vars

\* the lookup of the served request failed otherwise than with ErrNoEntry
LookupFailed ==
    /\ served.some /\ IsLookup(served.r)
    /\ \/ served.getFault = "fail"
       \/ served.getFault = "corrupt" /\ served.found

\* C12: when the lookup fails with an error other than ErrNoEntry (the
\* store errs, or the blob does not decode) the middleware passes that
\* error to the callback, then invokes the downstream handler once with
\* the original writer, and does not call Store.Set; the client receives
\* what the handler wrote.
C12_LookupFailureDegrades ==
    LookupFailed =>
        /\ served.log = <<"Get", "onError", "next(w)">>
        /\ served.errors = <<IF served.getFault = "fail" THEN ErrStore
                               ELSE ErrDecode>>
        /\ served.w = served.direct
        /\ served.panic = NoPanic

\* C12 witness: a cached blob came back damaged and the handler answered
C12_Witness ==
    /\ LookupFailed /\ served.getFault = "corrupt"
    /\ served.errors = <<ErrDecode>>
    /\ served.w.code = 201 /\ served.w.body = <<"h">>

\* the served request was a miss whose Store.Set failed
SaveFailed ==
    /\ served.some /\ IsMiss(served) /\ Called("Set") = 1
    /\ served.setFault # "none"

Timeouts == 0..(MaxDelay - 1)
Delays == 0..MaxDelay
\* the handlers of TestMiddlewareTimeouts and TestMiddleware, one that fails
TimedHandlers ==
    {<<OpWrite("h")>>,
     <<ContentType, OpWriteHeader(201), OpWrite("h")>>,
     <<OpWriteHeader(400)>>}

\* The middleware with a timeout over a store that may answer late.
NextMwTimed ==
    \E r \in FaultRequests, ops \in TimedHandlers, timeout \in Timeouts,
       getDelay \in Delays, setDelay \in {0, MaxDelay} :
        ServeTimed(r, ops, timeout, getDelay, setDelay)

SpecMwTimed == Init /\ [][NextMwTimed]_vars

OptTTLs == (0 - MaxTTL)..MaxTTL
OptionValues ==
    [name : {"WithTTL"}, ttl : OptTTLs, header : {""}, f : {"nil"}]
    \cup [name : {"WithBypassCacheHeader"}, ttl : {0}, header : {"", "X-Skip"},
          f : {"nil"}]
    \cup [name : {"WithOnErrorFunc"}, ttl : {0}, header : {""}, f : {"nil", "f"}]
\* no option, one option, a ttl option before or after another option
OptionLists ==
    {<<>>} \cup {<<a>> : a \in OptionValues}
           \cup {<<a, b>> : a \in {o \in OptionValues : o.name = "WithTTL"},
                            b \in {o \in OptionValues : o.ttl >= 0}}
           \cup {<<b, a>> : a \in {o \in OptionValues : o.name = "WithTTL"},
                            b \in {o \in OptionValues : o.name = "WithOnErrorFunc"}}
\* a GET of each key with and without either bypass header
OptRequests ==
    {[r EXCEPT !.header = h] :
        r \in {x \in FaultRequests : x.url.query = <<>>}, h \in {NoHeader, (BypassHeader :> <<"1">>),
                                     ("X-Skip" :> <<"1">>)}}

NextOptions ==
    \/ \E opts \in OptionLists : Construct(opts)
    \/ \E r \in OptRequests, ops \in TimedHandlers : Serve(r, ops, "none", "none")

SpecOptions == Init /\ [][NextOptions]_vars

\* the options the middleware was built with set a ttl that is not positive
NonPositiveTTL ==
    \E i \in DOMAIN mw.opts : mw.opts[i].name = "WithTTL" /\ mw.opts[i].ttl <= 0
NoTTLOption ==
    \A i \in DOMAIN mw.opts : mw.opts[i].name # "WithTTL"

\* C15: NewMiddleware given a ttl option that is zero or negative returns
\* an error and no middleware; built with no ttl option, the middleware
\* passes 24 hours as the ttl of every Store.Set.
C15_TTLIsValidated ==
    [][/\ NonPositiveTTL' => mw'.err # ErrNil
       /\ (served' # served /\ NoTTLOption) =>
             \A i \in DOMAIN served'.ttls : served'.ttls[i] = DefaultTTL]_vars

\* ------------------------------------------------------ cache keys
\* name=value pairs over two names and two values
Pairs == {<<n, v>> : n \in {1, 2}, v \in {1, 2}}
Queries == UNION {[1..k -> Pairs] : k \in 0..MaxQuery}
\* how often the pair p is written in the query q
Count(q, p) == Cardinality({i \in DOMAIN q : q[i] = p})
\* the same path and the same pairs, in any order
SameParams(u1, u2) ==
    /\ u1.path = u2.path
    /\ \A p \in Pairs : Count(u1.query, p) = Count(u2.query, p)
Reorderings ==
    {us \in {<<[path |-> "/", query |-> q1], [path |-> "/", query |-> q2]>> :
                q1 \in Queries, q2 \in Queries} : SameParams(us[1], us[2])}

InitKey ==
    /\ InitStore /\ InitMw /\ InitRecorder /\ InitThreads /\ rt = NoRoundTrip
    /\ probe \in {[u |-> us, keys |-> <<>>] : us \in Reorderings}

\* The two URLs are requested, by GET, from a handler that answers 201.
NextKey ==
    \/ DeriveKeys
    \/ \E i \in {1, 2} :
          Serve([method |-> "GET", url |-> probe.u[i], header |-> NoHeader],
                <<ContentType, OpWriteHeader(201), OpWrite("h")>>, "none", "none")

SpecKey == InitKey /\ [][NextKey]_vars

\* C16: two URLs with the same path and the same (name, value) pairs in
\* any order of names and of values get the same key, and a GET of one
\* right after a GET of the other was stored is a hit.
C16_KeyIgnoresParamOrder ==
    [][/\ (probe'.keys # <<>> /\ SameParams(probe.u[1], probe.u[2])) =>
             probe'.keys[1] = probe'.keys[2]
       /\ (/\ served' # served /\ kv # <<>>
           /\ \E i \in {1, 2} : SameParams(served'.r.url, probe.u[i])) =>
             /\ served'.found
             /\ served'.log = <<"Get">>
             /\ kv' = kv]_vars

\* C16 witness: bar=2&foo=1&foo=2 was served from the entry stored for
\* foo=2&bar=2&foo=1
C16_Witness ==
    /\ probe.u[1].query = <<<<2, 2>>, <<1, 2>>, <<2, 1>>>>
    /\ probe.u[2].query = <<<<1, 2>>, <<2, 1>>, <<2, 2>>>>
    /\ probe.keys # <<>>
    /\ served.some /\ served.r.url = probe.u[2]
    /\ served.found /\ served.log = <<"Get">> /\ ~served.again

\* ------------------------------------------------------ the recorder
\* the calls of the recorder tests, and some more
RecorderOps ==
    {OpWriteHeader(c) : c \in {200, 404, 500}}
    \cup {OpHeader(n, v) : n \in {"foo", "Content-Type"}, v \in {"bar", "baz"}}
    \cup {OpWrite("h"), OpWrite("i")}

NextRecorder == \E o \in RecorderOps : RecorderCall(o)

SpecRecorder == Init /\ [][NextRecorder]_vars

\* the call just made was WriteHeader
WroteHeaderNow == rr'.n = rr.n + 1 /\ rr'.last.op = "WriteHeader"

\* C17: the first WriteHeader on the recorder (Write's own call of it
\* included) sets statusCode and sends that code to the real writer; a
\* WriteHeader after that, with any code, changes neither the recorder nor
\* the real writer.
C17_StatusCommittedOnce ==
    [][WroteHeaderNow =>
         IF rr.p.rec.wroteHeader
         THEN rr'.p = rr.p
         ELSE /\ rr'.p.rec.wroteHeader
              /\ rr'.p.rec.statusCode = rr'.last.code
              /\ rr'.p.w.wroteHeader /\ rr'.p.w.code = rr'.last.code]_vars

\* C17 witness: WriteHeader(404) then WriteHeader(500), as in the test
C17_Witness ==
    /\ rr.n = 2 /\ rr.last = OpWriteHeader(500)
    /\ rr.p.rec.statusCode = 404 /\ rr.p.w.code = 404

\* C18: headers set through the recorder stay in its own map until the
\* status is committed: before that the real writer has no header, no
\* status and no body; at the commit its headers become those set so far,
\* and they are in place when the real writer sends the status, ahead of
\* every body byte.
C18_HeadersReachWriterAtCommit ==
    [][/\ ~rr'.p.rec.wroteHeader =>
             /\ rr'.p.w = NewWriter
             /\ rr'.last.op = "Header" => HeaderGet(rr'.p.rec.header, rr'.last.name)
                                              = rr'.last.value
       /\ (~rr.p.rec.wroteHeader /\ rr'.p.rec.wroteHeader) =>
             /\ rr'.p.w.header = rr.p.rec.header
             /\ rr'.p.w.sent = rr.p.rec.header
             /\ rr.p.w.body = <<>>]_vars

\* C18 witness: Header().Set("foo", "bar") then WriteHeader(200), as in
\* the test, then a body byte
C18_Witness ==
    /\ rr.n = 3 /\ rr.last = OpWrite("h")
    /\ rr.p.rec.statusCode = 200
    /\ HeaderGet(rr.p.rec.header, "foo") = "bar"
    /\ HeaderGet(rr.p.w.sent, "foo") = "bar"
    /\ rr.p.w.body = <<"h">>

\* ------------------------------------------------------ concurrent use
\* Get and Set calls of two keys with payloads of one and two bytes
ThreadCalls ==
    {[op |-> "Set", key |-> k, len |-> n] : k \in 1..2, n \in 1..2}
    \cup {[op |-> "Get", key |-> k, len |-> 0] : k \in 1..2}

NextThreads ==
    \E t \in Threads :
        \/ \E c \in ThreadCalls : Call(t, c)
        \/ Lock(t)
        \/ Body(t)
        \/ Unlock(t)

SpecThreads == Init /\ [][NextThreads]_vars

\* the goroutines inside the body of Get or Set
Inside == {t \in Threads : th.t[t].pc \in {"locked", "returning"}}

\* the keys of the access list from node n on, at most fuel of them
RECURSIVE listKeys(_, _, _)
listKeys(ns, n, fuel) ==
    IF n = Nil \/ fuel = 0 THEN <<>>
    ELSE <<ns[n].key>> \o listKeys(ns, ns[n].next, fuel - 1)

\* list and map hold the same keys, and each item points at its own node
ListMatchesMap ==
    LET l == listKeys(nodes, s.al.head, MaxKeys + 1)
    IN  /\ Len(l) = Cardinality(DOMAIN s.data)
        /\ {l[i] : i \in 1..Len(l)} = DOMAIN s.data
        /\ \A k \in DOMAIN s.data :
              /\ s.data[k].alNode \in NodeIds
              /\ nodes[s.data[k].alNode].key = k

\* C19: Get and Set hold the one mutex for their whole body: no two calls
\* are inside a body at once, each call leaves the store as it would when
\* run alone on the state it found (so the calls are as if run one after
\* another in lock order), and whenever the mutex is free the map, the
\* recency list and the byte counter agree.
C19_SafeUnderConcurrentUse ==
    /\ Inside \subseteq {th.mutex}
    /\ \A t \in Threads : th.t[t].pc = "returning" =>
          /\ s = th.seq.s /\ nodes = th.seq.nodes /\ caller.err = th.seq.err
    /\ th.mutex = Unlocked =>
          /\ ListMatchesMap
          /\ s.sizeBytes = ResidentBytes

\* ------------------------------------------------------ serialized form
\* body bytes, binary ones included
BodyBytes == {0, 255}
Bodies == UNION {[1..n -> BodyBytes] : n \in 0..MaxBody}
\* header sets: none, one value, several values, several names, a name
\* with no value
HeaderSets ==
    {NoHeader,
     HeaderSet(NoHeader, "foo", "bar"),
     [n \in {"foo"} |-> <<"bar", "baz">>],
     [n \in {"foo"} |-> <<"baz", "bar">>],
     [n \in {"foo"} |-> <<>>],
     [n \in {"Content-Type", "foo"} |->
        IF n = "foo" THEN <<"bar", "bar">> ELSE <<"text/plain">>]}
StatusCodes == {0, 200, 404}
CachedResponses ==
    {[StatusCode |-> c, Body |-> b, Header |-> h] :
        c \in StatusCodes, b \in Bodies, h \in HeaderSets}

InitGob ==
    /\ InitStore /\ InitMw /\ probe = NoProbe /\ InitRecorder /\ InitThreads
    /\ rt \in {[NoRoundTrip EXCEPT !.r = r] : r \in CachedResponses}

NextGob == SaveResponse \/ LoadResponse

SpecGob == InitGob /\ [][NextGob]_vars

C20_EmptyCase ==
    /\ rt.step = 2
    /\ rt.r = [StatusCode |-> 0, Body |-> <<>>, Header |-> NoHeader]
    /\ rt.back.cr = rt.r

\* ------------------------------------------- the list, the map, the clock
\* Sets of one byte and of MinCapacity bytes with ttl 1, Gets, clock ticks
NextList ==
    \/ \E k \in Keys, n \in {1, MinCapacity} : Set(k, Payload(n, 0), 1, FALSE)
    \/ \E k \in Keys : Get(k, FALSE)
    \/ Tick

SpecList == Init /\ [][NextList]_vars

\* the nodes of the access list from node n on, at most fuel of them
RECURSIVE listNodes(_, _, _)
listNodes(ns, n, fuel) ==
    IF n = Nil \/ fuel = 0 THEN <<>>
    ELSE <<n>> \o listNodes(ns, ns[n].next, fuel - 1)

\* no call has panicked
AllCompleted == ~recovered /\ caller.err \notin Panics

\* C21: after completed Get and Set calls the access list holds one node
\* per key of the map and no other node, each item's alNode is its own node
\* in the list, prev and next agree from head to tail, and the head is the
\* key most recently Set or read while live.
C21_ListMatchesMap ==
    AllCompleted =>
        LET l == listNodes(nodes, s.al.head, MaxKeys + 1)
        IN  /\ Len(l) = Cardinality(DOMAIN s.data)
            /\ {nodes[l[i]].key : i \in 1..Len(l)} = DOMAIN s.data
            /\ \A k \in DOMAIN s.data :
                  \E i \in 1..Len(l) : l[i] = s.data[k].alNode /\ nodes[l[i]].key = k
            /\ \A i \in 1..Len(l) :
                  nodes[l[i]].prev = IF i = 1 THEN Nil ELSE l[i - 1]
            /\ s.al.tail = IF l = <<>> THEN Nil ELSE l[Len(l)]
            /\ recency # <<>> => (l # <<>> /\ nodes[l[1]].key = recency[1])
            /\ recency = <<>> => l = <<>>

\* C21 witness: three keys are resident, the last call was a Get of a key
\* whose entry had expired, and the head is the key read live before it
C21_Witness ==
    /\ AllCompleted
    /\ Cardinality(DOMAIN s.data) = 3
    /\ caller.op = "Get" /\ caller.err = ErrNoEntry /\ caller.key \in DOMAIN s.data
    /\ Len(recency) = 3 /\ recency[1] # caller.key
    /\ nodes[s.al.head].key = recency[1]
    /\ nodes[s.al.tail].key = recency[3]

\* the step is a call of Set
SetCalled == caller'.op = "Set" /\ (caller' # caller \/ s' # s)

\* C22: a Set that does not return ErrEntryIsTooBig returns nil and leaves
\* its key resident with the payload passed, expiry now + ttl and its node
\* at the head of the list, also when the key was resident and the
\* overwrite evicts, the key itself being the least recently used.
C22_SetPostcondition ==
    [][(AllCompleted /\ SetCalled /\ caller'.err # ErrEntryIsTooBig) =>
         /\ caller'.err = ErrNil
         /\ caller'.key \in DOMAIN s'.data
         /\ heap'[s'.data[caller'.key].data] = caller'.arg
         /\ s'.data[caller'.key].expires = now + lastSet'[caller'.key].ttl
         /\ s'.al.head = s'.data[caller'.key].alNode
         /\ nodes'[s'.al.head].key = caller'.key]_vars

\* the bytes of the first n victims of the Set just made, as they were
\* resident before it
VictimBytes(n) == SumLen(s, heap, {victims'[i] : i \in 1..n})
\* what Set computes as bytesNeeded, from the state before the call
BytesNeeded ==
    IF caller'.key \in DOMAIN s.data
    THEN Len(caller'.arg) - Len(heap[s.data[caller'.key].data])
    ELSE Len(caller'.arg)
\* the bytes missing: bytesNeeded minus the bytes really free
Shortfall == BytesNeeded - (s.capacityBytes - ResidentBytes)

\* C23: a Set that returns nil evicts nothing when the bytes it needs are
\* free (capacity minus the resident payload bytes), and otherwise evicts
\* the shortest run of entries whose bytes make up the shortfall: the run
\* without its last victim would not be enough.
C23_EvictsNoMoreThanNeeded ==
    [][(AllCompleted /\ SetCalled /\ caller'.err = ErrNil) =>
         IF Shortfall <= 0
         THEN victims' = <<>>
         ELSE /\ victims' # <<>>
              /\ VictimBytes(Len(victims')) >= Shortfall
              /\ VictimBytes(Len(victims') - 1) < Shortfall]_vars

\* the step is a call of Get
GetCalled ==
    caller'.op = "Get" /\ (caller' # caller \/ s' # s \/ nodes' # nodes)
\* k is in the map and the ttl of its last Set has run out
Expired(k) ==
    k \in DOMAIN s.data /\ lastSet[k].at + lastSet[k].ttl < now

\* C24: a Get of a key that is not in the map, or is in it but expired,
\* returns ErrNoEntry and changes nothing: the map, the list, sizeBytes
\* and the stored bytes are as before the call.
C24_ExpiredGetChangesNothing ==
    [][(AllCompleted /\ GetCalled
        /\ (caller'.key \notin DOMAIN s.data \/ Expired(caller'.key))) =>
         /\ caller'.err = ErrNoEntry
         /\ s' = s
         /\ nodes' = nodes
         /\ heap' = heap]_vars

\* C24 witness: the key read last is in the map and expired, it got
\* ErrNoEntry, and it is still the tail of a list of three
C24_Witness ==
    /\ AllCompleted
    /\ caller.op = "Get" /\ caller.err = ErrNoEntry
    /\ Expired(caller.key)
    /\ Len(recency) = 3 /\ recency[3] = caller.key
    /\ nodes[s.al.tail].key = caller.key
    /\ s.sizeBytes = 3

\* the call just made was Write
WroteNow == rr'.n = rr.n + 1 /\ rr'.last.op = "Write"

\* C25: a Write on a recorder with no status committed first commits 200:
\* the recorder records it and the real writer sends it with the headers
\* set so far, ahead of the bytes; every Write appends the same bytes to
\* the recorder's buffer and to the real writer, so the two bodies are
\* always equal.
C25_WriteCommits200AndDuplicates ==
    [][WroteNow =>
         /\ ~rr.p.rec.wroteHeader =>
               /\ rr'.p.rec.wroteHeader /\ rr'.p.rec.statusCode = 200
               /\ rr'.p.w.code = 200
               /\ rr'.p.w.sent = rr.p.rec.header
               /\ rr.p.w.body = <<>>
         /\ rr.p.rec.wroteHeader =>
               /\ rr'.p.rec.statusCode = rr.p.rec.statusCode
               /\ rr'.p.w.code = rr.p.w.code
         /\ rr'.p.rec.body = rr.p.rec.body \o <<rr'.last.value>>
         /\ rr'.p.w.body = rr.p.w.body \o <<rr'.last.value>>
         /\ rr'.p.rec.body = rr'.p.w.body]_vars

\* C25 witness: Header().Set("foo", "bar"), Write("h"), Write("i") and no
\* WriteHeader: 200 was committed with the header, both bodies are "hi"
C25_Witness ==
    /\ rr.n = 3 /\ rr.last = OpWrite("i")
    /\ rr.p.rec.statusCode = 200 /\ rr.p.w.code = 200
    /\ HeaderGet(rr.p.w.sent, "foo") = "bar"
    /\ rr.p.rec.body = <<"h", "i">>
    /\ rr.p.w.body = <<"h", "i">>

\* C26: after completed Get and Set calls the payload bytes in the map are
\* at most capacityBytes, and so is sizeBytes.
C26_CapacityBoundsContents ==
    AllCompleted =>
        /\ ResidentBytes <= s.capacityBytes
        /\ s.sizeBytes <= s.capacityBytes

\* What the client has received once ServeHTTP returned: the server ends a
\* response whose status was never written by sending 200 with the headers
\* then in the writer's map.
finishRequest(w) == wWriteHeader(w, 200)
\* the response as the client sees it
Delivered(w) ==
    [StatusCode |-> finishRequest(w).code, Header |-> finishRequest(w).sent,
     Body |-> finishRequest(w).body]
\* the request was a miss and its response was stored
StoredMiss(sv) ==
    /\ IsMiss(sv) /\ Len(sv.log) = 3 /\ sv.log[3] = "Set" /\ sv.errors = <<>>

\* C27: the entry stored for a miss holds the status code, the headers and
\* the body the client of that request received, whatever the handler did;
\* and the hit that follows delivers that same response.
C27_CachedIsWhatWasServed ==
    [][/\ (served' # served /\ StoredMiss(served')) =>
             Cached(kv', served'.r) = Delivered(served'.w)
       /\ (/\ served' # served /\ StoredMiss(served)
           /\ served'.r = served.r /\ served'.getFault = "none") =>
             /\ served'.panic = NoPanic
             /\ Delivered(served'.w) = Delivered(served.w)]_vars

====
